---- MODULE Spec2Model ----
(***************************************************************************)
(* Progression engine of dailytaiyari: the XP ledger and level curve       *)
(* (gamification/services.py, users/models.py) and the daily streak        *)
(* (analytics/models.py).                                                  *)
(*                                                                         *)
(* Spec       one student, award_xp calls one after the other              *)
(* SpecConc   two award_xp calls for the same student, steps interleaved   *)
(* SpecLevel  calculate_level / xp_for_next_level on chosen totals         *)
(* SpecStreak update_streak calls on one fresh Streak record               *)
(***************************************************************************)
EXTENDS Integers, Sequences, FiniteSets, TLC

VARIABLES
    total_xp,        \* StudentProfile.total_xp (persisted row)
    current_level,   \* StudentProfile.current_level (persisted row)
    ledger,          \* XPTransaction rows of the student, in creation order
    daily_xp,        \* DailyActivity.xp_earned of the student for today
    last_call,       \* the last award_xp call: arguments, state before it, outcome
    procs,           \* SpecConc: per request, its position and its in-memory student
    calc,            \* SpecLevel: result of the last calculate_level / xp_for_next_level
    streak,          \* the Streak row
    streak_prev,     \* the Streak row before the last update_streak call
    history,         \* the activity dates passed to update_streak, in call order
    mastery,         \* the TopicMastery row of one (student, topic)
    mastery_call,    \* the last update_mastery call: arguments, row before it, outcome
    student_badges,  \* StudentBadge rows of the student: badge ids, in creation order
    stored,          \* the student's stored history that badge rules read
    badge_call,      \* the last check_and_award_badges call: context, result, rows before
    today,           \* the current date, a day number
    activity,        \* per student, the sums of today's DailyActivity row
    entries,         \* LeaderboardEntry rows of the global daily leaderboard
    board_run,       \* the last update_leaderboard run: its order, progress, rows before
    board_read,      \* what the last LeaderboardView.get returned
    progress,        \* the contents whose ContentProgress row is completed
    submit_call,     \* the last quiz submit or content completion: input, state before
    session,         \* the student's StudySession row of today
    beats,           \* SpecTimer: per request, its position and its in-memory session
    daily_study_goal_minutes  \* the profile's daily study goal

masteryVars == <<mastery, mastery_call>>

badgeVars == <<student_badges, stored, badge_call>>

boardVars == <<today, activity, entries, board_run, board_read>>

submitVars == <<progress, submit_call>>

timerVars == <<session, beats, daily_study_goal_minutes>>

vars == <<total_xp, current_level, ledger, daily_xp, last_call, procs, calc,
          streak, streak_prev, history, masteryVars, badgeVars, boardVars, submitVars, timerVars>>

----------------------------------------------------------------------------
(* Bounds *)

MaxRows == 5
MaxProbeLevel == 20
MaxDay == 7
MaxCalls == 5
MaxAttempted == 50
MaxStreakDays == 2
MaxBadgeCalls == 2
MaxBoardDay == 2
MaxRuns == 2
MaxReads == 2
MaxSubmits == 2
MaxBeats == 3

\* xp_amount arguments tried; 95 then 10 is the spec's scenario 3
Amounts == {-40, 10, 95, 150}
ConcAmounts == {10, 95, 150}
TxTypes == {"quiz_complete", "manual"}
Requests == {1, 2}

\* <<correct, total>> arguments of update_mastery; <<8, 10>> on a new row is
\* the spec's scenario 1
Attempts == {<<0, 0>>, <<8, 10>>, <<10, 10>>, <<3, 10>>, <<4, 5>>,
             <<7, 5>>, <<-1, 5>>, <<50, 5>>}
AvgTimes == {30, 31}

----------------------------------------------------------------------------
(* Level curve: users/models.py *)

FirstRequirement == 100
BonusPerLevel == 50

\* int(required_xp * 1.5) for a positive integer
NextRequirement(required_xp) == (required_xp * 3) \div 2

RECURSIVE LevelLoopStrict(_, _, _)
LevelLoopStrict(xp, level, required_xp) ==
    IF xp > required_xp
    THEN LevelLoopStrict(xp - required_xp, level + 1, NextRequirement(required_xp))
    ELSE level

calculate_level_strict(xp) == LevelLoopStrict(xp, 1, FirstRequirement)

\* the while loop of calculate_level
RECURSIVE LevelLoop(_, _, _)
LevelLoop(xp, level, required_xp) ==
    IF xp >= required_xp
    THEN LevelLoop(xp - required_xp, level + 1, NextRequirement(required_xp))
    ELSE level

calculate_level(xp) == LevelLoop(xp, 1, FirstRequirement)

\* the while loop of xp_for_next_level: total_required once level reaches lvl
RECURSIVE TotalRequiredLoop(_, _, _, _)
TotalRequiredLoop(level, required_xp, total_required, lvl) ==
    IF level < lvl
    THEN TotalRequiredLoop(level + 1, NextRequirement(required_xp),
                           total_required + NextRequirement(required_xp), lvl)
    ELSE total_required

xp_for_next_level(lvl, xp) ==
    TotalRequiredLoop(1, FirstRequirement, FirstRequirement, lvl) - xp

----------------------------------------------------------------------------
(* award_xp: gamification/services.py *)

LevelBonusFlat(new_level) == BonusPerLevel

LevelBonus(new_level) == new_level * BonusPerLevel

\* reference_id of a row written without one
NoReference == "null"

\* reference_id of the quiz, content or session a view passes to award_xp
ActivityReference == "activity"

PrimaryRow(ttype, amount, balance, reference_id) ==
    [transaction_type |-> ttype, xp_amount |-> amount, balance_after |-> balance,
     reference_id |-> reference_id]

LevelUpRowEmpty(bonus, balance) ==
    [transaction_type |-> "level_up", xp_amount |-> 0, balance_after |-> balance,
     reference_id |-> NoReference]

LevelUpRow(bonus, balance) ==
    [transaction_type |-> "level_up", xp_amount |-> bonus, balance_after |-> balance,
     reference_id |-> NoReference]

\* lines 23-32 on an in-memory student [total_xp, current_level]
Compute(student, amount) ==
    LET t1 == student.total_xp + amount
        new_level == calculate_level(t1)
        level_up == new_level > student.current_level
        level_bonus == IF level_up THEN LevelBonus(new_level) ELSE 0
    IN [total_xp |-> t1 + level_bonus,
        current_level |-> IF level_up THEN new_level ELSE student.current_level,
        new_level |-> new_level,
        level_up |-> level_up,
        level_bonus |-> level_bonus]

\* rows created by lines 37-53
RowsOf(r, ttype, amount, reference_id) ==
    <<PrimaryRow(ttype, amount, r.total_xp, reference_id)>> \o
    (IF r.level_up THEN <<LevelUpRow(r.level_bonus, r.total_xp)>> ELSE <<>>)

\* line 57
TracksDaily(ttype) == ttype \notin {"quiz_complete", "mock_test"}

NoCall ==
    [amount |-> 0, ttype |-> "none", pre_total |-> 0, pre_level |-> 1,
     pre_len |-> 0, outcome |-> "none"]

CallRecord(amount, ttype, outcome) ==
    [amount |-> amount, ttype |-> ttype, pre_total |-> total_xp,
     pre_level |-> current_level, pre_len |-> Len(ledger), outcome |-> outcome]

\* One whole award_xp call on a freshly loaded student (request.user.profile).
\* total_xp, balance_after and xp_earned are PositiveIntegerFields: a save
\* of a negative value raises and writes nothing.
AwardXp(amount, ttype) ==
    /\ Len(ledger) < MaxRows
    /\ LET r == Compute([total_xp |-> total_xp, current_level |-> current_level], amount)
           d == daily_xp + amount + r.level_bonus
       IN IF r.total_xp < 0
          THEN /\ last_call' = CallRecord(amount, ttype, "raised_on_student_save")
               /\ UNCHANGED <<total_xp, current_level, ledger, daily_xp>>
          ELSE /\ total_xp' = r.total_xp
               /\ current_level' = r.current_level
               /\ ledger' = ledger \o RowsOf(r, ttype, amount, ActivityReference)
               /\ IF TracksDaily(ttype) /\ d >= 0
                  THEN daily_xp' = d
                  ELSE UNCHANGED daily_xp
               /\ last_call' = CallRecord(amount, ttype,
                      IF TracksDaily(ttype) /\ d < 0
                      THEN "raised_on_activity_save" ELSE "ok")
    /\ UNCHANGED <<procs, calc, streak, streak_prev, history, masteryVars, badgeVars, boardVars, submitVars, timerVars>>

----------------------------------------------------------------------------
(* Initial values *)

\* a DateField that is None
NoDate == -1000

\* a Streak row as created by get_or_create (the model's defaults)
NoStreak ==
    [current_streak |-> 0, last_activity_date |-> NoDate, longest_streak |-> 0,
     longest_streak_start |-> NoDate, longest_streak_end |-> NoDate,
     total_active_days |-> 0]

IdleProc == [pc |-> "idle", amount |-> 0, ttype |-> "none",
             total_xp |-> 0, current_level |-> 1, new_level |-> 1,
             level_up |-> FALSE, level_bonus |-> 0, activity_xp |-> 0]

\* no TopicMastery row yet; the fields are the model's defaults
NoMastery ==
    [exists |-> FALSE, total_questions_attempted |-> 0, total_correct_answers |-> 0,
     accuracy_percentage |-> 0, average_time_per_question |-> 0,
     mastery_score |-> 0, mastery_level |-> 1, needs_revision |-> FALSE]

NoMasteryCall ==
    [correct |-> 0, total |-> 0, avg_time |-> 0, before |-> NoMastery,
     outcome |-> "none"]

NoCalc == [op |-> "none", total_xp |-> 0, current_level |-> 1, result |-> 0]

\* the student's history before any quiz: nothing completed, no leaderboard entry
NoHistory ==
    [quizzes_completed |-> 0, perfect_quizzes |-> 0, mock_tests_completed |-> 0,
     questions_attempted |-> 0, correct_answers |-> 0, topics_mastered |-> 0,
     physics_mastered |-> 0, chemistry_mastered |-> 0, biology_mastered |-> 0,
     top_10_entry |-> FALSE]

NoBadgeCall ==
    [context |-> {}, awarded |-> <<>>, before |-> <<>>, outcome |-> "none",
     calls |-> 0]

\* the StudentProfile rows that the leaderboard code enumerates
Students == {1, 2, 3}

\* no DailyActivity row in the window: every Sum() is None, read as 0
NoActivity == [xp |-> 0, questions |-> 0, correct |-> 0]

NoRun == [order |-> <<>>, sorted |-> <<>>, next |-> 0, before |-> {}, day |-> 0,
          runs |-> 0, outcome |-> "none"]

NoRead == [student |-> 0, leaderboard |-> <<>>, user_rank |-> 0, reads |-> 0]

NoSubmit ==
    [op |-> "none", attempted |-> 0, correct |-> 0, xp |-> 0, before |-> NoMastery,
     outcome |-> "none", calls |-> 0]

\* StudentProfile.daily_study_goal_minutes, users/models.py line 134
DefaultGoalMinutes == 60

\* no StudySession row for today
NoSession ==
    [exists |-> FALSE, total_seconds_today |-> 0, goal_seconds |-> 0,
     is_active |-> FALSE, goal_achieved |-> FALSE, goal_xp_awarded |-> FALSE]

IdleBeat ==
    [pc |-> "idle", elapsed_seconds |-> 0, session |-> NoSession,
     student |-> [total_xp |-> 0, current_level |-> 1], xp_awarded |-> 0,
     outcome |-> "none", count |-> 0]

InitExceptStored ==
    /\ total_xp = 0
    /\ current_level = 1
    /\ ledger = <<>>
    /\ daily_xp = 0
    /\ last_call = NoCall
    /\ procs = [p \in Requests |-> IdleProc]
    /\ calc = NoCalc
    /\ streak = NoStreak
    /\ streak_prev = NoStreak
    /\ history = <<>>
    /\ mastery = NoMastery
    /\ mastery_call = NoMasteryCall
    /\ student_badges = <<>>
    /\ badge_call = NoBadgeCall
    /\ today = 1
    /\ activity = [s \in Students |-> NoActivity]
    /\ entries = {}
    /\ board_run = NoRun
    /\ board_read = NoRead
    /\ progress = {}
    /\ submit_call = NoSubmit
    /\ session = NoSession
    /\ beats = [p \in Requests |-> IdleBeat]
    /\ daily_study_goal_minutes = DefaultGoalMinutes

Init == InitExceptStored /\ stored = NoHistory

----------------------------------------------------------------------------
(* SpecLevel: the level curve on chosen totals *)

\* r(1) = 100, r(k+1) = floor(r(k) * 1.5)
RECURSIVE Requirement(_)
Requirement(k) == IF k = 1 THEN 100 ELSE (3 * Requirement(k - 1)) \div 2

\* B(L) = r(1) + ... + r(L)
RECURSIVE Boundary(_)
Boundary(L) == IF L = 0 THEN 0 ELSE Boundary(L - 1) + Requirement(L)

ProbeTotals == {0} \cup {Boundary(L) + d : L \in 1..MaxProbeLevel, d \in {-1, 0, 1}}

CalculateLevel(xp) ==
    /\ calc' = [op |-> "calculate_level", total_xp |-> xp, current_level |-> 1,
                result |-> calculate_level(xp)]
    /\ UNCHANGED <<total_xp, current_level, ledger, daily_xp, last_call, procs,
                   streak, streak_prev, history, masteryVars, badgeVars, boardVars, submitVars, timerVars>>

XpForNextLevel(lvl, xp) ==
    /\ calc' = [op |-> "xp_for_next_level", total_xp |-> xp, current_level |-> lvl,
                result |-> xp_for_next_level(lvl, xp)]
    /\ UNCHANGED <<total_xp, current_level, ledger, daily_xp, last_call, procs,
                   streak, streak_prev, history, masteryVars, badgeVars, boardVars, submitVars, timerVars>>

NextLevel ==
    \/ \E xp \in ProbeTotals : CalculateLevel(xp)
    \/ \E lvl \in 1..MaxProbeLevel :
          \E xp \in {0, Boundary(lvl - 1), Boundary(lvl) - 1} : XpForNextLevel(lvl, xp)

SpecLevel == Init /\ [][NextLevel]_vars

----------------------------------------------------------------------------
(* SpecConc: two requests run award_xp for the same student.  Each request
   holds its own StudentProfile object (request.user.profile); no lock, no
   F() expression and no transaction surrounds lines 23-64. *)

AfterRows(ttype) == IF TracksDaily(ttype) THEN "activity_get" ELSE "done"

\* the view loads request.user.profile and calls award_xp
Load(p, amount, ttype) ==
    /\ procs[p].pc = "idle"
    /\ procs' = [procs EXCEPT ![p] =
                   [@ EXCEPT !.pc = "loaded", !.amount = amount, !.ttype = ttype,
                             !.total_xp = total_xp, !.current_level = current_level]]
    /\ UNCHANGED <<total_xp, current_level, ledger, daily_xp, last_call, calc,
                   streak, streak_prev, history, masteryVars, badgeVars, boardVars, submitVars, timerVars>>

\* lines 23-34: compute on the in-memory object, then student.save()
SaveStudent(p) ==
    /\ procs[p].pc = "loaded"
    /\ LET r == Compute([total_xp |-> procs[p].total_xp,
                         current_level |-> procs[p].current_level], procs[p].amount)
       IN /\ total_xp' = r.total_xp
          /\ current_level' = r.current_level
          /\ procs' = [procs EXCEPT ![p] =
                         [@ EXCEPT !.pc = "saved", !.total_xp = r.total_xp,
                                   !.current_level = r.current_level,
                                   !.new_level = r.new_level, !.level_up = r.level_up,
                                   !.level_bonus = r.level_bonus]]
    /\ UNCHANGED <<ledger, daily_xp, last_call, calc, streak, streak_prev, history, masteryVars, badgeVars, boardVars, submitVars, timerVars>>

\* lines 37-44
CreatePrimary(p) ==
    /\ procs[p].pc = "saved"
    /\ ledger' = Append(ledger,
                        PrimaryRow(procs[p].ttype, procs[p].amount, procs[p].total_xp,
                                   ActivityReference))
    /\ procs' = [procs EXCEPT ![p].pc =
                   IF procs[p].level_up THEN "bonus" ELSE AfterRows(procs[p].ttype)]
    /\ UNCHANGED <<total_xp, current_level, daily_xp, last_call, calc,
                   streak, streak_prev, history, masteryVars, badgeVars, boardVars, submitVars, timerVars>>

\* lines 46-53
CreateLevelUp(p) ==
    /\ procs[p].pc = "bonus"
    /\ ledger' = Append(ledger, LevelUpRow(procs[p].level_bonus, procs[p].total_xp))
    /\ procs' = [procs EXCEPT ![p].pc = AfterRows(procs[p].ttype)]
    /\ UNCHANGED <<total_xp, current_level, daily_xp, last_call, calc,
                   streak, streak_prev, history, masteryVars, badgeVars, boardVars, submitVars, timerVars>>

\* lines 58-62: DailyActivity.objects.get_or_create
GetActivity(p) ==
    /\ procs[p].pc = "activity_get"
    /\ procs' = [procs EXCEPT ![p] = [@ EXCEPT !.pc = "activity_save",
                                                !.activity_xp = daily_xp]]
    /\ UNCHANGED <<total_xp, current_level, ledger, daily_xp, last_call, calc,
                   streak, streak_prev, history, masteryVars, badgeVars, boardVars, submitVars, timerVars>>

\* lines 63-64
SaveActivity(p) ==
    /\ procs[p].pc = "activity_save"
    /\ daily_xp' = procs[p].activity_xp + procs[p].amount + procs[p].level_bonus
    /\ procs' = [procs EXCEPT ![p].pc = "done"]
    /\ UNCHANGED <<total_xp, current_level, ledger, last_call, calc,
                   streak, streak_prev, history, masteryVars, badgeVars, boardVars, submitVars, timerVars>>

NextConc ==
    \E p \in Requests :
        \/ \E amount \in ConcAmounts, ttype \in TxTypes : Load(p, amount, ttype)
        \/ SaveStudent(p)
        \/ CreatePrimary(p)
        \/ CreateLevelUp(p)
        \/ GetActivity(p)
        \/ SaveActivity(p)

SpecConc == Init /\ [][NextConc]_vars

----------------------------------------------------------------------------
(* SpecStreak: update_streak, analytics/models.py.  Dates are day numbers,
   timedelta(days=1) is 1. *)

update_streak_every_call(s, d) ==
    LET last == s.last_activity_date
        cs == IF last = NoDate THEN 1
              ELSE IF d = last + 1 THEN s.current_streak + 1
              ELSE IF d > last + 1 THEN 1
              ELSE s.current_streak
        record == cs > s.longest_streak
    IN [current_streak |-> cs,
        last_activity_date |-> d,
        longest_streak |-> IF record THEN cs ELSE s.longest_streak,
        longest_streak_start |-> IF record THEN d - (cs - 1) ELSE s.longest_streak_start,
        longest_streak_end |-> IF record THEN d ELSE s.longest_streak_end,
        total_active_days |-> s.total_active_days + 1]

update_streak_gap_kept(s, d) ==
    IF s.last_activity_date # NoDate /\ d = s.last_activity_date
    THEN s
    ELSE LET last == s.last_activity_date
             cs == IF last = NoDate THEN 1
                   ELSE IF d = last + 1 THEN s.current_streak + 1
                   ELSE s.current_streak
             record == cs > s.longest_streak
         IN [current_streak |-> cs,
             last_activity_date |-> d,
             longest_streak |-> IF record THEN cs ELSE s.longest_streak,
             longest_streak_start |->
                 IF record THEN d - (cs - 1) ELSE s.longest_streak_start,
             longest_streak_end |-> IF record THEN d ELSE s.longest_streak_end,
             total_active_days |-> s.total_active_days + 1]

update_streak_else_reset(s, d) ==
    IF s.last_activity_date # NoDate /\ d = s.last_activity_date
    THEN s
    ELSE LET last == s.last_activity_date
             cs == IF last = NoDate THEN 1
                   ELSE IF d = last + 1 THEN s.current_streak + 1
                   ELSE 1
             record == cs > s.longest_streak
         IN [current_streak |-> cs,
             last_activity_date |-> d,
             longest_streak |-> IF record THEN cs ELSE s.longest_streak,
             longest_streak_start |->
                 IF record THEN d - (cs - 1) ELSE s.longest_streak_start,
             longest_streak_end |-> IF record THEN d ELSE s.longest_streak_end,
             total_active_days |-> s.total_active_days + 1]

update_streak_record_on_tie(s, d) ==
    IF s.last_activity_date # NoDate /\ d = s.last_activity_date
    THEN s
    ELSE LET last == s.last_activity_date
             cs == IF last = NoDate THEN 1
                   ELSE IF d = last + 1 THEN s.current_streak + 1
                   ELSE IF d > last + 1 THEN 1
                   ELSE s.current_streak
             record == cs >= s.longest_streak
         IN [current_streak |-> cs,
             last_activity_date |-> d,
             longest_streak |-> IF record THEN cs ELSE s.longest_streak,
             longest_streak_start |->
                 IF record THEN d - (cs - 1) ELSE s.longest_streak_start,
             longest_streak_end |-> IF record THEN d ELSE s.longest_streak_end,
             total_active_days |-> s.total_active_days + 1]

\* Streak.update_streak(activity_date) on row s; the result is the saved row.
\* The if/elif chain has no else: a date before last_activity_date matches
\* no branch and current_streak keeps its value.
update_streak(s, d) ==
    IF s.last_activity_date # NoDate /\ d = s.last_activity_date
    THEN s
    ELSE LET last == s.last_activity_date
             cs == IF last = NoDate THEN 1
                   ELSE IF d = last + 1 THEN s.current_streak + 1
                   ELSE IF d > last + 1 THEN 1
                   ELSE s.current_streak
             record == cs > s.longest_streak
         IN [current_streak |-> cs,
             last_activity_date |-> d,
             longest_streak |-> IF record THEN cs ELSE s.longest_streak,
             longest_streak_start |->
                 IF record THEN d - (cs - 1) ELSE s.longest_streak_start,
             longest_streak_end |-> IF record THEN d ELSE s.longest_streak_end,
             total_active_days |-> s.total_active_days + 1]

\* AnalyticsService.update_streak(student, activity_date)
UpdateStreak(d) ==
    /\ Len(history) < MaxCalls
    /\ streak' = update_streak(streak, d)
    /\ streak_prev' = streak
    /\ history' = Append(history, d)
    /\ UNCHANGED <<total_xp, current_level, ledger, daily_xp, last_call, procs, calc,
                   masteryVars, badgeVars, boardVars, submitVars, timerVars>>

NextStreak == \E d \in 1..MaxDay : UpdateStreak(d)

SpecStreak == Init /\ [][NextStreak]_vars

----------------------------------------------------------------------------
(* SpecMastery: TopicMastery.update_mastery, analytics/models.py.
   accuracy_percentage and mastery_score are DecimalField(5, 2); the rows
   hold them in hundredths.  In memory they are floats, modelled as exact
   fractions num / den. *)

\* decimal's ROUND_HALF_EVEN of n / d, n >= 0, d > 0
RoundHalfEven(n, d) ==
    LET q == n \div d
        r == n % d
    IN IF 2 * r > d \/ (2 * r = d /\ q % 2 = 1) THEN q + 1 ELSE q

DecimalOverflow == -1

\* What save() stores for the float num / den >= 0 in a DecimalField(5, 2):
\* DecimalField.to_python rounds the float to max_digits = 5 significant
\* digits, format_number quantizes to 2 places; a value that needs more than
\* 5 digits raises.
ToDecimalField(num, den) ==
    IF num >= 1000 * den THEN DecimalOverflow
    ELSE LET places == IF num >= 100 * den THEN 2
                       ELSE IF num >= 10 * den THEN 3
                       ELSE IF num >= den THEN 4
                       ELSE IF 10 * num >= den THEN 5
                       ELSE IF 100 * num >= den THEN 6
                       ELSE 7
             scale == IF places = 2 THEN 100
                      ELSE IF places = 3 THEN 1000
                      ELSE IF places = 4 THEN 10000
                      ELSE IF places = 5 THEN 100000
                      ELSE IF places = 6 THEN 1000000
                      ELSE 10000000
             hundredths == RoundHalfEven(RoundHalfEven(num * scale, den), scale \div 100)
         IN IF hundredths >= 100000 THEN DecimalOverflow ELSE hundredths

MasteryLevelSwapped(num, den) ==
    IF num >= 90 * den THEN 5
    ELSE IF num >= 75 * den THEN 3
    ELSE IF num >= 60 * den THEN 4
    ELSE IF num >= 40 * den THEN 2
    ELSE 1

MasteryLevelExclusive(num, den) ==
    IF num > 90 * den THEN 5
    ELSE IF num > 75 * den THEN 4
    ELSE IF num > 60 * den THEN 3
    ELSE IF num > 40 * den THEN 2
    ELSE 1

\* lines 80-89 for mastery_score = num / den, den > 0
MasteryLevel(num, den) ==
    IF num >= 90 * den THEN 5
    ELSE IF num >= 75 * den THEN 4
    ELSE IF num >= 60 * den THEN 3
    ELSE IF num >= 40 * den THEN 2
    ELSE 1

\* line 76 in percent: 100 * min(1, attempted / 50)
VolumePercent(attempted) == IF attempted >= 50 THEN 100 ELSE 2 * attempted

\* update_mastery(correct, total, avg_time) on row m as get_or_create returned
\* it: a row just created carries the int default 0 in accuracy_percentage,
\* a row read from the database carries a Decimal.  The result is the row
\* in the database afterwards and how the call ended.
update_mastery(m, correct, total, avg_time) ==
    LET attempted == m.total_questions_attempted + total
        answered == m.total_correct_answers + correct
        recomputed == attempted > 0
        accNum == IF recomputed THEN 100 * answered ELSE m.accuracy_percentage
        accDen == IF recomputed THEN attempted ELSE 100
        avg == IF m.average_time_per_question = 0 THEN avg_time
               ELSE (m.average_time_per_question + avg_time) \div 2
        scoreNum == accNum * (100 + VolumePercent(attempted))
        scoreDen == accDen * 200
        level == MasteryLevel(scoreNum, scoreDen)
        created == [m EXCEPT !.exists = TRUE]
    IN IF ~recomputed /\ m.exists
       THEN \* line 77: Decimal * float
            [row |-> created, outcome |-> "raised_type_error"]
       ELSE IF \/ attempted < 0 \/ answered < 0 \/ avg < 0
               \/ ToDecimalField(accNum, accDen) = DecimalOverflow
               \/ ToDecimalField(scoreNum, scoreDen) = DecimalOverflow
       THEN \* line 94: the database refuses the row
            [row |-> created, outcome |-> "raised_on_save"]
       ELSE [row |-> [exists |-> TRUE,
                      total_questions_attempted |-> attempted,
                      total_correct_answers |-> answered,
                      accuracy_percentage |-> ToDecimalField(accNum, accDen),
                      average_time_per_question |-> avg,
                      mastery_score |-> ToDecimalField(scoreNum, scoreDen),
                      mastery_level |-> level,
                      needs_revision |-> (level <= 2)],
             outcome |-> "ok"]

\* TopicMastery.objects.get_or_create(student, topic), then update_mastery
UpdateMastery(correct, total, avg_time) ==
    /\ mastery.total_questions_attempted + total <= MaxAttempted
    /\ LET r == update_mastery(mastery, correct, total, avg_time)
       IN /\ mastery' = r.row
          /\ mastery_call' = [correct |-> correct, total |-> total,
                              avg_time |-> avg_time, before |-> mastery,
                              outcome |-> r.outcome]
    /\ UNCHANGED <<total_xp, current_level, ledger, daily_xp, last_call, procs, calc,
                   streak, streak_prev, history, badgeVars, boardVars, submitVars, timerVars>>

NextMastery ==
    \E a \in Attempts, avg_time \in AvgTimes : UpdateMastery(a[1], a[2], avg_time)

SpecMastery == Init /\ [][NextMastery]_vars

----------------------------------------------------------------------------
(* SpecBadges: check_and_award_badges, gamification/services.py *)

\* the Badge catalog: requirements (JSON object), xp_reward, is_active
Catalog ==
    <<[requirements |-> [streak_days |-> 2], xp_reward |-> 50, is_active |-> TRUE],
      [requirements |-> [total_xp |-> 100], xp_reward |-> 20, is_active |-> TRUE],
      [requirements |-> [perfect_quiz |-> 1], xp_reward |-> 30, is_active |-> TRUE],
      [requirements |-> [speed_quiz |-> TRUE], xp_reward |-> 30, is_active |-> TRUE],
      [requirements |-> [bogus_kind |-> 1], xp_reward |-> 25, is_active |-> TRUE],
      [requirements |-> <<>>, xp_reward |-> 25, is_active |-> TRUE],
      [requirements |-> [early_study |-> TRUE], xp_reward |-> 0, is_active |-> TRUE],
      [requirements |-> [night_study |-> TRUE], xp_reward |-> 10, is_active |-> TRUE],
      [requirements |-> [weekend_study |-> TRUE], xp_reward |-> 10, is_active |-> TRUE],
      [requirements |-> [comeback |-> TRUE], xp_reward |-> 10, is_active |-> TRUE],
      [requirements |-> [quizzes_completed |-> 1, weekend_study |-> TRUE],
       xp_reward |-> 15, is_active |-> TRUE],
      [requirements |-> [speed_quiz |-> TRUE], xp_reward |-> 30, is_active |-> FALSE],
      [requirements |-> [top_10 |-> 1], xp_reward |-> 10, is_active |-> TRUE]>>

BadgeIds == 1..Len(Catalog)

\* the order in which the loop of line 96 gets the badges: by id, either way
\* (Badge has no Meta.ordering)
Ascending == [i \in BadgeIds |-> i]
Descending == [i \in BadgeIds |-> Len(Catalog) + 1 - i]
Orders == {Ascending, Descending}

ContextFlags ==
    {"perfect_quiz", "speed_quiz", "early_study", "night_study", "weekend_study",
     "comeback"}

\* contexts tried: the set of flags that are true; {} is check_new's context
Contexts ==
    {{}, {"perfect_quiz"}, {"speed_quiz"}, {"early_study"}, {"night_study"},
     {"weekend_study"}, {"comeback"}, {"top_10"}, ContextFlags}

\* the dates the student studies on between badge checks
StudyDays == {1, 2}

StoredHistories ==
    {NoHistory,
     [NoHistory EXCEPT !.quizzes_completed = 3, !.perfect_quizzes = 2,
                       !.questions_attempted = 30, !.correct_answers = 28,
                       !.top_10_entry = TRUE]}

\* the elif chain of lines 103-207, in its order
KeyOrder ==
    <<"streak_days", "quizzes_completed", "min_accuracy", "total_xp",
      "topics_mastered", "questions_answered", "perfect_quiz", "speed_quiz",
      "mock_tests_completed", "early_study", "night_study", "weekend_study",
      "comeback", "top_10", "physics_mastery", "chemistry_mastery",
      "biology_mastery">>

NoKey == "none"

\* the branch the chain takes: the first key of the chain that the
\* requirements contain
RECURSIVE BranchFrom(_, _)
BranchFrom(requirements, i) ==
    IF i > Len(KeyOrder) THEN NoKey
    ELSE IF KeyOrder[i] \in DOMAIN requirements THEN KeyOrder[i]
    ELSE BranchFrom(requirements, i + 1)

Branch(requirements) == BranchFrom(requirements, 1)

SubjectTopicsNeeded == 5

\* StudentProfile.overall_accuracy >= v, the accuracy rounded to 2 places
AccuracyAtLeast(h, v) ==
    IF h.questions_attempted = 0 THEN 0 >= v
    ELSE 20000 * h.correct_answers >= (200 * v - 1) * h.questions_attempted

\* the body of the branch taken; s is the in-memory student with its streak
BranchHolds(key, v, context, s, h) ==
    CASE key = "streak_days" -> s.has_streak /\ s.current_streak >= v
      [] key = "quizzes_completed" -> h.quizzes_completed >= v
      [] key = "min_accuracy" -> AccuracyAtLeast(h, v)
      [] key = "total_xp" -> s.total_xp >= v
      [] key = "topics_mastered" -> h.topics_mastered >= v
      [] key = "questions_answered" -> h.questions_attempted >= v
      [] key = "perfect_quiz" -> "perfect_quiz" \in context /\ h.perfect_quizzes >= v
      [] key = "speed_quiz" -> "speed_quiz" \in context
      [] key = "mock_tests_completed" -> h.mock_tests_completed >= v
      [] key = "early_study" -> "early_study" \in context
      [] key = "night_study" -> "night_study" \in context
      [] key = "weekend_study" -> "weekend_study" \in context
      [] key = "comeback" -> "comeback" \in context
      [] key = "top_10" -> h.top_10_entry
      [] key = "physics_mastery" -> h.physics_mastered >= SubjectTopicsNeeded
      [] key = "chemistry_mastery" -> h.chemistry_mastered >= SubjectTopicsNeeded
      [] key = "biology_mastery" -> h.biology_mastered >= SubjectTopicsNeeded
      [] OTHER -> FALSE

QualifiesByDefault(requirements, context, s, h) ==
    LET key == Branch(requirements)
    IN IF key = NoKey THEN TRUE
       ELSE BranchHolds(key, requirements[key], context, s, h)

QualifiesFromHistory(requirements, context, s, h) ==
    LET key == Branch(requirements)
    IN IF key = NoKey THEN FALSE
       ELSE IF key = "perfect_quiz" THEN h.perfect_quizzes >= requirements[key]
       ELSE BranchHolds(key, requirements[key], context, s, h)

QualifiesTopTenByContext(requirements, context, s, h) ==
    LET key == Branch(requirements)
    IN IF key = NoKey THEN FALSE
       ELSE IF key = "top_10" THEN "top_10" \in context
       ELSE BranchHolds(key, requirements[key], context, s, h)

\* lines 97-217: qualified after the chain
Qualifies(requirements, context, s, h) ==
    LET key == Branch(requirements)
    IN IF key = NoKey THEN FALSE
       ELSE BranchHolds(key, requirements[key], context, s, h)

RowIds(rows) == {rows[i] : i \in 1..Len(rows)}

AvailableBadgesAll(existing_badges) == {b \in BadgeIds : Catalog[b].is_active}

\* lines 89-94: active badges the student has no row for
AvailableBadges(existing_badges) ==
    {b \in BadgeIds : Catalog[b].is_active /\ b \notin existing_badges}

\* lines 227-234: award_xp(student, xp_reward, 'badge_earned', ..., badge.id) on
\* the loop state st
AwardBadgeXp(st, b) ==
    LET amount == Catalog[b].xp_reward
        r == Compute([total_xp |-> st.total_xp, current_level |-> st.current_level],
                     amount)
    IN [st EXCEPT !.total_xp = r.total_xp,
                  !.current_level = r.current_level,
                  !.ledger = @ \o RowsOf(r, "badge_earned", amount, b),
                  !.daily_xp = @ + amount + r.level_bonus]

\* the loop of lines 96-234 from position i of the order; StudentBadge is
\* unique per (student, badge): creating a second row raises
RECURSIVE BadgeLoopOn(_, _, _, _, _, _, _, _)
BadgeLoopOn(order, i, st, context, available, has_streak, streak_row, h) ==
    IF i > Len(order) \/ st.outcome # "ok" THEN st
    ELSE LET b == order[i]
             s == [total_xp |-> st.total_xp,
                   has_streak |-> has_streak,
                   current_streak |-> streak_row.current_streak]
         IN IF b \notin available
               \/ ~Qualifies(Catalog[b].requirements, context, s, h)
            THEN BadgeLoopOn(order, i + 1, st, context, available,
                             has_streak, streak_row, h)
            ELSE IF b \in RowIds(st.rows)
            THEN [st EXCEPT !.outcome = "raised_integrity_error"]
            ELSE LET created == [st EXCEPT !.rows = Append(@, b),
                                           !.awarded = Append(@, b)]
                     rewarded == IF Catalog[b].xp_reward > 0
                                 THEN AwardBadgeXp(created, b) ELSE created
                 IN BadgeLoopOn(order, i + 1, rewarded, context, available,
                                has_streak, streak_row, h)

\* the loop on the stored Streak row and history
BadgeLoop(order, i, st, context, available) ==
    BadgeLoopOn(order, i, st, context, available, history # <<>>, streak, stored)

\* One whole check_and_award_badges(student, context) call
CheckAndAwardBadges(context, order) ==
    LET st == BadgeLoop(order, 1,
                        [total_xp |-> total_xp, current_level |-> current_level,
                         ledger |-> ledger, daily_xp |-> daily_xp,
                         rows |-> student_badges, awarded |-> <<>>, outcome |-> "ok"],
                        context, AvailableBadges(RowIds(student_badges)))
    IN /\ badge_call.calls < MaxBadgeCalls
       /\ total_xp' = st.total_xp
       /\ current_level' = st.current_level
       /\ ledger' = st.ledger
       /\ daily_xp' = st.daily_xp
       /\ student_badges' = st.rows
       /\ badge_call' = [context |-> context, awarded |-> st.awarded,
                         before |-> student_badges, outcome |-> st.outcome,
                         calls |-> badge_call.calls + 1]
       /\ UNCHANGED <<last_call, procs, calc, streak, streak_prev, history,
                      masteryVars, stored, boardVars, submitVars, timerVars>>

InitBadges == InitExceptStored /\ stored \in StoredHistories

NextBadges ==
    \/ \E context \in Contexts, order \in Orders : CheckAndAwardBadges(context, order)
    \/ Len(history) < MaxStreakDays /\ \E d \in StudyDays : UpdateStreak(d)

SpecBadges == InitBadges /\ [][NextBadges]_vars

----------------------------------------------------------------------------
(* SpecBoard, SpecSnapshot, SpecBoardRead: the leaderboard of
   gamification/services.py for period = 'daily' and exam = None.  The window
   of a run is the current date; period_start = today. *)

\* StudentProfile.objects.all() has no ordering: the rows come in any order
BoardOrders ==
    {o \in [1..Cardinality(Students) -> Students] :
        \A i, j \in DOMAIN o : o[i] = o[j] => i = j}

\* what the students' DailyActivity rows of one day can sum to; counters only grow
DayActivities ==
    {[s \in Students |-> NoActivity],
     (1 :> [xp |-> 500, questions |-> 10, correct |-> 8]) @@
     (2 :> [xp |-> 500, questions |-> 10, correct |-> 8]) @@
     (3 :> NoActivity),
     (1 :> NoActivity) @@
     (2 :> [xp |-> 0, questions |-> 5, correct |-> 2]) @@
     (3 :> [xp |-> 300, questions |-> 10, correct |-> 10]),
     (1 :> [xp |-> 500, questions |-> 10, correct |-> 8]) @@
     (2 :> [xp |-> 500, questions |-> 10, correct |-> 9]) @@
     (3 :> [xp |-> 300, questions |-> 10, correct |-> 10])}

Grows(a, b) ==
    /\ a # b
    /\ \A s \in Students : /\ a[s].xp <= b[s].xp
                          /\ a[s].questions <= b[s].questions
                          /\ a[s].correct <= b[s].correct

\* accuracy = (correct / questions * 100) if questions > 0 else 0, kept as the
\* fraction num / den
AccuracyOf(a) ==
    IF a.questions > 0 THEN [num |-> 100 * a.correct, den |-> a.questions]
    ELSE [num |-> 0, den |-> 1]

\* lines 273-297: one student_stats element
StatOf(act, s) ==
    [student |-> s, xp |-> act[s].xp, questions |-> act[s].questions,
     accuracy |-> AccuracyOf(act[s])]

KeyBeforeXpOnly(x, y) == x.xp > y.xp

\* line 299: key(x) < key(y) for key = (-xp, -accuracy)
KeyBefore(x, y) ==
    \/ x.xp > y.xp
    \/ /\ x.xp = y.xp
       /\ x.accuracy.num * y.accuracy.den > y.accuracy.num * x.accuracy.den

\* list.sort is stable: an element goes behind every element that is not
\* after it in key order
RECURSIVE InsertStable(_, _, _)
InsertStable(sorted, x, i) ==
    IF i > Len(sorted) THEN Append(sorted, x)
    ELSE IF KeyBefore(x, sorted[i])
    THEN SubSeq(sorted, 1, i - 1) \o <<x>> \o SubSeq(sorted, i, Len(sorted))
    ELSE InsertStable(sorted, x, i + 1)

RECURSIVE SortStats(_, _)
SortStats(stats, n) ==
    IF n = 0 THEN <<>> ELSE InsertStable(SortStats(stats, n - 1), stats[n], 1)

\* lines 265-299: student_stats after the sort, the students taken in order
SortedStats(act, order) ==
    SortStats([i \in DOMAIN order |-> StatOf(act, order[i])], Len(order))

NoRank == 0

LatestEntry(es, s) ==
    CHOOSE e \in es : /\ e.student = s
                      /\ \A f \in es : f.student = s => f.period_start <= e.period_start

\* lines 304-310: the rank of the student's entry with the latest period_start
PreviousRank(es, s, day) ==
    IF \E e \in es : e.student = s THEN LatestEntry(es, s).rank ELSE NoRank

\* lines 304-328 for one element: the row update_or_create leaves for the key
\* (student, exam, period, period_start); run tells which run wrote the row
WriteEntry(es, stat, rank, day, run) ==
    LET previous_rank == PreviousRank(es, stat.student, day)
        row == [student |-> stat.student, period_start |-> day,
                xp_earned |-> stat.xp, questions_answered |-> stat.questions,
                accuracy |-> ToDecimalField(stat.accuracy.num, stat.accuracy.den),
                rank |-> rank, previous_rank |-> previous_rank,
                rank_change |-> IF previous_rank # NoRank
                                THEN previous_rank - rank ELSE 0,
                run |-> run]
    IN {e \in es : ~(e.student = stat.student /\ e.period_start = day)} \cup {row}

\* the loop of lines 302-328 from position i
RECURSIVE WriteFrom(_, _, _, _, _)
WriteFrom(es, sorted, i, day, run) ==
    IF i > Len(sorted) THEN es
    ELSE WriteFrom(WriteEntry(es, sorted[i], i, day, run), sorted, i + 1, day, run)

\* One whole update_leaderboard('daily') run
UpdateLeaderboard(order) ==
    /\ board_run.next = 0
    /\ board_run.runs < MaxRuns
    /\ LET sorted == SortedStats(activity, order)
       IN /\ entries' = WriteFrom(entries, sorted, 1, today, board_run.runs + 1)
          /\ board_run' = [order |-> order, sorted |-> sorted, next |-> 0,
                           before |-> entries, day |-> today,
                           runs |-> board_run.runs + 1, outcome |-> "done"]
    /\ UNCHANGED <<total_xp, current_level, ledger, daily_xp, last_call, procs, calc,
                   streak, streak_prev, history, masteryVars, badgeVars, submitVars, timerVars,
                   today, activity, board_read>>

\* the students study: today's DailyActivity sums grow
Study ==
    /\ board_run.next = 0
    /\ \E a \in DayActivities : Grows(activity, a) /\ activity' = a
    /\ UNCHANGED <<total_xp, current_level, ledger, daily_xp, last_call, procs, calc,
                   streak, streak_prev, history, masteryVars, badgeVars, submitVars, timerVars,
                   today, entries, board_run, board_read>>

\* midnight: the window moves on and has no DailyActivity row yet
NextDay ==
    /\ board_run.next = 0
    /\ today < MaxBoardDay
    /\ today' = today + 1
    /\ activity' = [s \in Students |-> NoActivity]
    /\ UNCHANGED <<total_xp, current_level, ledger, daily_xp, last_call, procs, calc,
                   streak, streak_prev, history, masteryVars, badgeVars, submitVars, timerVars,
                   entries, board_run, board_read>>

NextBoard ==
    \/ \E order \in BoardOrders : UpdateLeaderboard(order)
    \/ Study
    \/ NextDay

SpecBoard == Init /\ [][NextBoard]_vars

\* The same run step by step.  update_leaderboard opens no transaction, so each
\* update_or_create commits on its own and the loop can end at any element
\* when a statement raises.

\* lines 265-299
StartRun(order) ==
    /\ board_run.next = 0
    /\ board_run.runs < MaxRuns
    /\ board_run' = [order |-> order, sorted |-> SortedStats(activity, order),
                     next |-> 1, before |-> entries, day |-> today,
                     runs |-> board_run.runs + 1, outcome |-> "running"]
    /\ UNCHANGED <<total_xp, current_level, ledger, daily_xp, last_call, procs, calc,
                   streak, streak_prev, history, masteryVars, badgeVars, submitVars, timerVars,
                   today, activity, entries, board_read>>

\* lines 302-328, one turn of the loop; line 330 after the last one
WriteStep ==
    /\ board_run.next > 0
    /\ entries' = WriteEntry(entries, board_run.sorted[board_run.next], board_run.next,
                             board_run.day, board_run.runs)
    /\ board_run' = IF board_run.next = Len(board_run.sorted)
                    THEN [board_run EXCEPT !.next = 0, !.outcome = "done"]
                    ELSE [board_run EXCEPT !.next = @ + 1]
    /\ UNCHANGED <<total_xp, current_level, ledger, daily_xp, last_call, procs, calc,
                   streak, streak_prev, history, masteryVars, badgeVars, submitVars, timerVars,
                   today, activity, board_read>>

\* a statement of the loop raises (database error): the run ends there
FailRun ==
    /\ board_run.next > 1
    /\ board_run' = [board_run EXCEPT !.next = 0, !.outcome = "raised"]
    /\ UNCHANGED <<total_xp, current_level, ledger, daily_xp, last_call, procs, calc,
                   streak, streak_prev, history, masteryVars, badgeVars, submitVars, timerVars,
                   today, activity, entries, board_read>>

NextSnapshot ==
    \/ \E order \in BoardOrders : StartRun(order)
    \/ WriteStep
    \/ FailRun
    \/ Study

SpecSnapshot == Init /\ [][NextSnapshot]_vars

\* get_leaderboard, lines 364-392: only students with some activity; accuracy
\* is round(accuracy, 1), kept in tenths
LeaderboardData(act, order, i) ==
    [student |-> order[i], xp |-> act[order[i]].xp,
     questions |-> act[order[i]].questions,
     accuracy |-> [num |-> RoundHalfEven(10 * AccuracyOf(act[order[i]]).num,
                                         AccuracyOf(act[order[i]]).den),
                   den |-> 10]]

RECURSIVE SelectActive(_, _, _)
SelectActive(act, order, i) ==
    IF i > Len(order) THEN <<>>
    ELSE (IF act[order[i]].xp > 0 \/ act[order[i]].questions > 0
          THEN <<LeaderboardData(act, order, i)>> ELSE <<>>)
         \o SelectActive(act, order, i + 1)

Min(a, b) == IF a < b THEN a ELSE b

\* get_leaderboard, lines 357-406
get_leaderboard(act, order, limit) ==
    LET data == SelectActive(act, order, 1)
        sorted == SortStats(data, Len(data))
    IN [i \in 1..Min(limit, Len(sorted)) |->
           [student |-> sorted[i].student, xp_earned |-> sorted[i].xp,
            questions_answered |-> sorted[i].questions, rank |-> i]]

RECURSIVE InsertByXp(_, _, _)
InsertByXp(sorted, x, i) ==
    IF i > Len(sorted) THEN Append(sorted, x)
    ELSE IF x.xp > sorted[i].xp
    THEN SubSeq(sorted, 1, i - 1) \o <<x>> \o SubSeq(sorted, i, Len(sorted))
    ELSE InsertByXp(sorted, x, i + 1)

RECURSIVE SortByXp(_, _)
SortByXp(scores, n) ==
    IF n = 0 THEN <<>> ELSE InsertByXp(SortByXp(scores, n - 1), scores[n], 1)

\* get_student_rank, lines 433-459: every student, sorted by -xp alone
get_student_rank(act, order, student) ==
    LET scores == [i \in DOMAIN order |-> [student_id |-> order[i], xp |-> act[order[i]].xp]]
        sorted == SortByXp(scores, Len(scores))
    IN CHOOSE rank \in DOMAIN sorted : sorted[rank].student_id = student

Limits == {2, 50}

\* LeaderboardView.get for the requesting student; both queries of the
\* request get the rows in the same order
LeaderboardGet(student, limit, order) ==
    /\ board_read.reads < MaxReads
    /\ board_read' = [student |-> student,
                      leaderboard |-> get_leaderboard(activity, order, limit),
                      user_rank |-> get_student_rank(activity, order, student),
                      reads |-> board_read.reads + 1]
    /\ UNCHANGED <<total_xp, current_level, ledger, daily_xp, last_call, procs, calc,
                   streak, streak_prev, history, masteryVars, badgeVars, submitVars, timerVars,
                   today, activity, entries, board_run>>

NextBoardRead ==
    \/ \E student \in Students, limit \in Limits, order \in BoardOrders :
          LeaderboardGet(student, limit, order)
    \/ Study

SpecBoardRead == Init /\ [][NextBoardRead]_vars

----------------------------------------------------------------------------
(* SpecSubmit: the quiz submit of quiz/views.py and the content completion of
   content/views.py for one student on one day.  The quiz has QuizQuestions
   questions of one topic with the default marks. *)

QuizQuestions == 10

\* Question.marks = 1.0 and Question.negative_marks = 0.25, in quarters
MarkQuarters == 4
NegativeQuarters == 1

XpPerQuestion == 5

\* <<attempted, correct>> answers of a submission
Submissions == {<<10, 10>>, <<10, 8>>, <<4, 1>>}

\* the badge-context flags that depend on the clock and the duration
SubmitTimes == {{}, {"speed_quiz", "weekend_study"}}

SubmitAvgTime == 30

\* The post_save receiver of quiz/signals.py is connected when the module is
\* imported at start-up
ReceiverConnected == TRUE

\* QuizAttempt.calculate_results: percentage as the fraction num / den
Percentage(attempted, correct) ==
    LET marks == MarkQuarters * correct - NegativeQuarters * (attempted - correct)
        marks_obtained == IF marks > 0 THEN marks ELSE 0
        total_marks == MarkQuarters * QuizQuestions
    IN [num |-> 100 * marks_obtained, den |-> total_marks]

\* calculate_xp_for_quiz(accuracy, questions_count) without the challenge bonus
calculate_xp_for_quiz(accuracy, questions_count) ==
    (XpPerQuestion * questions_count * accuracy.num) \div (100 * accuracy.den)

\* update_topic_mastery_from_attempt on the submit state st
MasteryFromAttempt(st, attempted, correct) ==
    IF st.outcome # "ok" \/ attempted = 0 THEN st
    ELSE LET r == update_mastery(st.mastery, correct, attempted, SubmitAvgTime)
         IN [st EXCEPT !.mastery = r.row, !.outcome = r.outcome]

\* attempt.save() with status = 'completed': post_save runs the receiver
SaveCompleted(st, attempted, correct) ==
    IF ReceiverConnected THEN MasteryFromAttempt(st, attempted, correct) ELSE st

\* award_xp(student, amount, ttype, ..., reference_id) on the state st
AwardOn(st, amount, ttype, reference_id) ==
    IF st.outcome # "ok" THEN st
    ELSE LET r == Compute([total_xp |-> st.total_xp,
                           current_level |-> st.current_level], amount)
         IN [st EXCEPT !.total_xp = r.total_xp,
                       !.current_level = r.current_level,
                       !.ledger = @ \o RowsOf(r, ttype, amount, reference_id),
                       !.daily_xp = IF TracksDaily(ttype)
                                    THEN @ + amount + r.level_bonus ELSE @]

\* update_daily_activity(student, ..., xp_earned = xp), then its update_streak
DailyActivityOn(st, xp) ==
    IF st.outcome # "ok" THEN st
    ELSE [st EXCEPT !.daily_xp = @ + xp,
                    !.streak = update_streak(@, today),
                    !.history = Append(@, today)]

\* lines 341-343 and what the badge rules will count afterwards
CountersOn(st, attempted, correct) ==
    IF st.outcome # "ok" THEN st
    ELSE [st EXCEPT !.stored.questions_attempted = @ + attempted,
                    !.stored.correct_answers = @ + correct,
                    !.stored.quizzes_completed = @ + 1,
                    !.stored.perfect_quizzes =
                        IF Percentage(attempted, correct).num
                           = 100 * Percentage(attempted, correct).den
                        THEN @ + 1 ELSE @]

MasteredOn(st) ==
    IF st.outcome # "ok" THEN st
    ELSE [st EXCEPT !.stored.topics_mastered =
                        IF st.mastery.exists /\ st.mastery.mastery_level >= 4
                        THEN 1 ELSE 0]

BadgesOn(st, context, order) ==
    IF st.outcome # "ok" THEN st
    ELSE BadgeLoopOn(order, 1, st, context, AvailableBadges(RowIds(st.rows)),
                     st.history # <<>>, st.streak, st.stored)

SubmitState ==
    [total_xp |-> total_xp, current_level |-> current_level, ledger |-> ledger,
     daily_xp |-> daily_xp, mastery |-> mastery, streak |-> streak,
     history |-> history, stored |-> stored, rows |-> student_badges,
     awarded |-> <<>>, outcome |-> "ok"]

\* One whole QuizViewSet.submit, lines 269-388
Submit(attempted, correct, times, order) ==
    /\ submit_call.calls < MaxSubmits
    /\ LET accuracy == Percentage(attempted, correct)
           xp == calculate_xp_for_quiz(accuracy, QuizQuestions)
           context == times \cup (IF accuracy.num = 100 * accuracy.den
                                  THEN {"perfect_quiz"} ELSE {})
           s1 == SaveCompleted(SubmitState, attempted, correct)
           s2 == SaveCompleted(s1, attempted, correct)
           s3 == CountersOn(s2, attempted, correct)
           s4 == AwardOn(s3, xp, "quiz_complete", ActivityReference)
           s5 == DailyActivityOn(s4, xp)
           s6 == MasteredOn(MasteryFromAttempt(s5, attempted, correct))
           st == BadgesOn(s6, context, order)
       IN /\ total_xp' = st.total_xp
          /\ current_level' = st.current_level
          /\ ledger' = st.ledger
          /\ daily_xp' = st.daily_xp
          /\ mastery' = st.mastery
          /\ streak' = st.streak
          /\ streak_prev' = streak
          /\ history' = st.history
          /\ stored' = st.stored
          /\ student_badges' = st.rows
          /\ submit_call' = [op |-> "quiz_submit", attempted |-> attempted,
                             correct |-> correct, xp |-> xp, before |-> mastery,
                             outcome |-> st.outcome, calls |-> submit_call.calls + 1]
    /\ UNCHANGED <<last_call, procs, calc, mastery_call, badge_call, boardVars,
                   progress, timerVars>>

\* Content.content_type of the contents the student can complete
Contents == {"notes", "video", "pdf"}

\* lines 123-127
ContentXp(content_type) ==
    IF content_type = "video" THEN 15 ELSE IF content_type = "pdf" THEN 12 ELSE 10

\* One whole ContentProgressViewSet.complete, lines 104-155
Complete(content) ==
    /\ submit_call.calls < MaxSubmits
    /\ LET st == DailyActivityOn(AwardOn(SubmitState, ContentXp(content),
                                         "content_complete", ActivityReference),
                                 ContentXp(content))
           done == content \in progress
       IN /\ progress' = progress \cup {content}
          /\ total_xp' = IF done THEN total_xp ELSE st.total_xp
          /\ current_level' = IF done THEN current_level ELSE st.current_level
          /\ ledger' = IF done THEN ledger ELSE st.ledger
          /\ daily_xp' = IF done THEN daily_xp ELSE st.daily_xp
          /\ streak' = IF done THEN streak ELSE st.streak
          /\ streak_prev' = IF done THEN streak_prev ELSE streak
          /\ history' = IF done THEN history ELSE st.history
          /\ submit_call' = [op |-> "content_complete", attempted |-> 0,
                             correct |-> 0,
                             xp |-> IF done THEN 0 ELSE ContentXp(content),
                             before |-> mastery,
                             outcome |-> IF done THEN "already_completed" ELSE "ok",
                             calls |-> submit_call.calls + 1]
    /\ UNCHANGED <<last_call, procs, calc, masteryVars, badgeVars, boardVars,
                   timerVars>>

NextSubmit ==
    \/ \E a \in Submissions, times \in SubmitTimes, order \in Orders :
          Submit(a[1], a[2], times, order)
    \/ \E content \in Contents : Complete(content)

SpecSubmit == Init /\ [][NextSubmit]_vars

----------------------------------------------------------------------------
(* SpecTimer: the study timer of analytics/views.py, two requests of one
   student whose steps interleave.  No view runs in a transaction or locks
   the StudySession row. *)

\* elapsed_seconds a heartbeat sends
TimerElapsed == {30, 3600}

\* daily_study_goal_minutes a goal change sends
GoalInputs == {4, 5, 481}

MinGoalMinutes == 5

MaxGoalMinutes == 480

GoalBaseXp == 50

StreakBonusPerDay == 5

MaxStreakBonus == 50

\* StudyTimerView.post: get_or_create, then is_active = True and save()
TimerPost ==
    /\ session' = IF session.exists
                  THEN [session EXCEPT !.is_active = TRUE]
                  ELSE [NoSession EXCEPT !.exists = TRUE,
                                         !.goal_seconds = daily_study_goal_minutes * 60,
                                         !.is_active = TRUE]
    /\ session' # session
    /\ UNCHANGED <<total_xp, current_level, ledger, daily_xp, last_call, procs, calc,
                   streak, streak_prev, history, masteryVars, badgeVars, boardVars,
                   submitVars, beats, daily_study_goal_minutes>>

\* StudyTimerView.delete: is_active = False and save(), nothing without a row
TimerDelete ==
    /\ session.exists
    /\ session.is_active
    /\ session' = [session EXCEPT !.is_active = FALSE]
    /\ UNCHANGED <<total_xp, current_level, ledger, daily_xp, last_call, procs, calc,
                   streak, streak_prev, history, masteryVars, badgeVars, boardVars,
                   submitVars, beats, daily_study_goal_minutes>>

\* StudyGoalView.put: a goal outside 5..480 is answered with 400; otherwise
\* the profile is saved and today's row, if any, gets goal_seconds by update()
GoalPut(new_goal) ==
    /\ new_goal >= MinGoalMinutes
    /\ new_goal <= MaxGoalMinutes
    /\ daily_study_goal_minutes' = new_goal
    /\ session' = IF session.exists
                  THEN [session EXCEPT !.goal_seconds = new_goal * 60]
                  ELSE session
    /\ daily_study_goal_minutes' # daily_study_goal_minutes
       \/ session' # session
    /\ UNCHANGED <<total_xp, current_level, ledger, daily_xp, last_call, procs, calc,
                   streak, streak_prev, history, masteryVars, badgeVars, boardVars,
                   submitVars, beats>>

\* heartbeats answered or in progress
BeatsBegun ==
    beats[1].count + beats[2].count
    + Cardinality({q \in Requests : beats[q].pc # "idle"})

\* StudyTimerView.put, lines 315-326: the request's profile and the row are
\* read; without a row the answer is 404
BeatLoad(p, elapsed_seconds) ==
    /\ beats[p].pc = "idle"
    /\ BeatsBegun < MaxBeats
    /\ beats' = [beats EXCEPT ![p] =
           IF session.exists
           THEN [pc |-> "loaded", elapsed_seconds |-> elapsed_seconds,
                 session |-> session,
                 student |-> [total_xp |-> total_xp, current_level |-> current_level],
                 xp_awarded |-> 0, outcome |-> "none", count |-> @.count]
           ELSE [IdleBeat EXCEPT !.outcome = "not_found", !.count = beats[p].count + 1]]
    /\ UNCHANGED <<total_xp, current_level, ledger, daily_xp, last_call, procs, calc,
                   streak, streak_prev, history, masteryVars, badgeVars, boardVars,
                   submitVars, session, daily_study_goal_minutes>>

\* lines 345-352
GoalXp(streak_row) ==
    GoalBaseXp + (IF streak_row.current_streak > 0
                  THEN Min(MaxStreakBonus, streak_row.current_streak * StreakBonusPerDay)
                  ELSE 0)

\* lines 329-372 on the in-memory row: the time is added, the goal is checked
\* and, when it was just achieved, award_xp and update_streak run
BeatCheck(p) ==
    /\ beats[p].pc = "loaded"
    /\ LET b == beats[p]
           total == b.session.total_seconds_today + b.elapsed_seconds
           goal_just_achieved == ~b.session.goal_achieved
                                 /\ total >= b.session.goal_seconds
           awards == goal_just_achieved /\ ~b.session.goal_xp_awarded
           xp_awarded == GoalXp(streak)
           r == Compute(b.student, xp_awarded)
       IN /\ beats' = [beats EXCEPT ![p] =
                 [b EXCEPT !.pc = "checked",
                           !.session.total_seconds_today = total,
                           !.session.goal_achieved = @ \/ goal_just_achieved,
                           !.session.goal_xp_awarded = @ \/ awards,
                           !.student = IF awards
                                       THEN [total_xp |-> r.total_xp,
                                             current_level |-> r.current_level]
                                       ELSE @,
                           !.xp_awarded = IF awards THEN xp_awarded ELSE 0]]
          /\ IF awards
             THEN /\ total_xp' = r.total_xp
                  /\ current_level' = r.current_level
                  /\ ledger' = ledger \o RowsOf(r, "daily_goal", xp_awarded,
                                                ActivityReference)
                  /\ daily_xp' = daily_xp + xp_awarded + r.level_bonus
                  /\ streak' = update_streak(streak, today)
                  /\ streak_prev' = streak
                  /\ history' = Append(history, today)
             ELSE UNCHANGED <<total_xp, current_level, ledger, daily_xp, streak,
                              streak_prev, history>>
    /\ UNCHANGED <<last_call, procs, calc, masteryVars, badgeVars, boardVars,
                   submitVars, session, daily_study_goal_minutes>>

\* lines 374-392: session.save() writes every field of the in-memory row,
\* then update_daily_activity adds the study time and calls update_streak
BeatSave(p) ==
    /\ beats[p].pc = "checked"
    /\ session' = beats[p].session
    /\ streak' = update_streak(streak, today)
    /\ streak_prev' = streak
    /\ history' = Append(history, today)
    /\ beats' = [beats EXCEPT ![p] =
           [IdleBeat EXCEPT !.outcome = "ok", !.count = beats[p].count + 1]]
    /\ UNCHANGED <<total_xp, current_level, ledger, daily_xp, last_call, procs, calc,
                   masteryVars, badgeVars, boardVars, submitVars,
                   daily_study_goal_minutes>>

NextTimer ==
    \/ TimerPost
    \/ TimerDelete
    \/ \E new_goal \in GoalInputs : GoalPut(new_goal)
    \/ \E p \in Requests, elapsed_seconds \in TimerElapsed : BeatLoad(p, elapsed_seconds)
    \/ \E p \in Requests : BeatCheck(p)
    \/ \E p \in Requests : BeatSave(p)

SpecTimer == Init /\ [][NextTimer]_vars

----------------------------------------------------------------------------
Next == \E amount \in Amounts, ttype \in TxTypes : AwardXp(amount, ttype)

Spec == Init /\ [][Next]_vars

----------------------------------------------------------------------------
(* Claims about the XP ledger *)

RECURSIVE SumPrefix(_, _)
SumPrefix(rows, n) == IF n = 0 THEN 0 ELSE SumPrefix(rows, n - 1) + rows[n].xp_amount

LedgerSum == SumPrefix(ledger, Len(ledger))

Wrote == last_call.outcome \in {"ok", "raised_on_activity_save"}

\* C1: the sum of xp_amount over all the student's rows (primary and level_up)
\* equals total_xp after any sequence of award_xp calls from total_xp = 0.
C1_LedgerConservation == LedgerSum = total_xp

C1_Witness ==
    /\ Len(ledger) >= 3
    /\ \E i \in 1..Len(ledger) : ledger[i].transaction_type = "level_up"
    /\ \E i \in 1..Len(ledger) : ledger[i].xp_amount < 0
    /\ total_xp > 0

\* C2: every row's balance_after is the sum of xp_amount up to and including
\* that row, also for the primary row of an award that levels up.
C2_BalanceIsRunningSum ==
    \A i \in 1..Len(ledger) : ledger[i].balance_after = SumPrefix(ledger, i)

\* C3: an award that raises the level sets current_level, adds one bonus of
\* new_level * 50 and appends the primary row then a level_up row; otherwise
\* one row and no bonus.
C3_LevelUpRows ==
    Wrote =>
      LET c == last_call
          t == c.pre_total + c.amount
          nl == calculate_level(t)
          n == c.pre_len
      IN IF nl > c.pre_level
         THEN /\ current_level = nl
              /\ total_xp = t + nl * 50
              /\ Len(ledger) = n + 2
              /\ ledger[n + 1].transaction_type = c.ttype
              /\ ledger[n + 1].xp_amount = c.amount
              /\ ledger[n + 2].transaction_type = "level_up"
              /\ ledger[n + 2].xp_amount = nl * 50
         ELSE /\ current_level = c.pre_level
              /\ total_xp = t
              /\ Len(ledger) = n + 1
              /\ ledger[n + 1].transaction_type = c.ttype
              /\ ledger[n + 1].xp_amount = c.amount

C3_Witness ==
    /\ last_call.outcome = "ok"
    /\ last_call.pre_total = 95 /\ last_call.pre_level = 1 /\ last_call.amount = 10
    /\ total_xp = 205 /\ current_level = 2
    /\ Len(ledger) = 3
    /\ ledger[2].xp_amount = 10 /\ ledger[3].xp_amount = 100

\* C4: after an award of a non-negative amount on a student whose stored
\* level was the derived one, current_level = level_for_xp(final total_xp).
C4_StoredLevelIsDerived ==
    (/\ Wrote
     /\ last_call.amount >= 0
     /\ last_call.pre_level = calculate_level(last_call.pre_total))
    => current_level = calculate_level(total_xp)

\* C5: calculate_level maps B(L) - 1 to L and B(L) to L + 1 for L in 1..20,
\* and xp_for_next_level counts up to B(current_level).
C5_LevelRoundTrip ==
    /\ calc.op = "calculate_level" =>
          \A L \in 1..MaxProbeLevel :
             /\ calc.total_xp = Boundary(L) - 1 => calc.result = L
             /\ calc.total_xp = Boundary(L) => calc.result = L + 1
    /\ calc.op = "xp_for_next_level" =>
          calc.result + calc.total_xp = Boundary(calc.current_level)

C5_Witness ==
    /\ calc.op = "calculate_level"
    /\ calc.total_xp = Boundary(20)
    /\ calc.result = 21

\* C6: a negative amount with a type other than manual is rejected: total_xp,
\* current_level and the ledger stay as they were.
C6_NegativeRejected ==
    (last_call.amount < 0 /\ last_call.ttype \notin {"manual", "none"})
    => /\ total_xp = last_call.pre_total
       /\ current_level = last_call.pre_level
       /\ Len(ledger) = last_call.pre_len

----------------------------------------------------------------------------
(* Claims about concurrent awards *)

AllDone == \A p \in Requests : procs[p].pc = "done"

RECURSIVE LevelUpSum(_, _)
LevelUpSum(rows, n) ==
    IF n = 0 THEN 0
    ELSE LevelUpSum(rows, n - 1) +
         (IF rows[n].transaction_type = "level_up" THEN rows[n].xp_amount ELSE 0)

\* C7: with two award_xp calls interleaved, the final total_xp is the
\* initial total plus both amounts plus every level bonus in the ledger,
\* so the ledger still sums to total_xp.
C7_NoLostUpdate ==
    AllDone =>
      /\ total_xp = procs[1].amount + procs[2].amount + LevelUpSum(ledger, Len(ledger))
      /\ total_xp = LedgerSum

----------------------------------------------------------------------------
(* Claims about the streak *)

Calls == Len(history)
LastDate == history[Calls]
Dates == {history[i] : i \in 1..Calls}

StrictlyIncreasing == \A i \in 1..(Calls - 1) : history[i] < history[i + 1]

\* length of the maximal run of consecutive days ending at LastDate
RunLength ==
    CHOOSE k \in 1..Calls :
        /\ \A i \in 0..(k - 1) : (LastDate - i) \in Dates
        /\ (LastDate - k) \notin Dates

\* C8: applying update_streak(d) again to the state one application left
\* changes no field.
C8_StreakIdempotent ==
    Calls >= 1 => update_streak(streak, LastDate) = streak

C8_Witness ==
    /\ Calls >= 3
    /\ history[Calls] = history[Calls - 1]
    /\ history[Calls - 1] = history[Calls - 2] + 1
    /\ streak.current_streak = 2
    /\ streak = streak_prev

\* C9: on strictly increasing dates from a fresh record, current_streak is
\* the length of the run of consecutive days ending at the latest date.
C9_StreakIsRunLength ==
    (Calls >= 1 /\ StrictlyIncreasing) =>
      /\ streak.current_streak = RunLength
      /\ Calls = 1 => streak.current_streak = 1
      /\ (Calls > 1 /\ LastDate = history[Calls - 1] + 1)
            => streak.current_streak = streak_prev.current_streak + 1
      /\ (Calls > 1 /\ LastDate > history[Calls - 1] + 1)
            => streak.current_streak = 1

C9_Witness ==
    /\ history = <<2, 3, 4, 5, 7>>
    /\ streak_prev.current_streak = 4
    /\ streak_prev.last_activity_date = 5
    /\ streak.current_streak = 1
    /\ streak.last_activity_date = 7

Backdated ==
    /\ Calls >= 1
    /\ streak_prev.last_activity_date # NoDate
    /\ LastDate < streak_prev.last_activity_date

\* C10: an activity_date earlier than last_activity_date sets
\* current_streak to 1.
C10_BackdatedResets == Backdated => streak.current_streak = 1

\* C10 as amended: an activity_date earlier than last_activity_date leaves
\* current_streak as it was, moves last_activity_date back to that date and
\* counts one more active day.
C10_BackdatedKeepsStreak ==
    Backdated =>
      /\ streak.current_streak = streak_prev.current_streak
      /\ streak.last_activity_date = LastDate
      /\ streak.total_active_days = streak_prev.total_active_days + 1

C10_Witness ==
    /\ Backdated
    /\ streak_prev.current_streak = 3
    /\ streak.current_streak = 3

\* C11: total_active_days never exceeds the number of distinct dates that
\* occurred in the sequence of update_streak calls.
C11_ActiveDaysAtMostDistinctDates ==
    streak.total_active_days <= Cardinality(Dates)

\* the Streak rows after each of the first n calls of the history
RECURSIVE RowsAfter(_)
RowsAfter(n) ==
    IF n = 0 THEN <<>>
    ELSE LET before == RowsAfter(n - 1)
             row == IF n = 1 THEN NoStreak ELSE before[n - 1]
         IN Append(before, update_streak(row, history[n]))

\* C12: longest_streak is the largest value current_streak has taken,
\* longest_streak_end the activity date on which it was reached, and
\* longest_streak_start = longest_streak_end - (longest_streak - 1).
C12_LongestStreakRecord ==
    Calls >= 1 =>
      LET rows == RowsAfter(Calls)
          largest == CHOOSE m \in 1..Calls :
                        /\ \A i \in 1..Calls : rows[i].current_streak <= m
                        /\ \E i \in 1..Calls : rows[i].current_streak = m
          reached == CHOOSE i \in 1..Calls :
                        /\ rows[i].current_streak = largest
                        /\ \A j \in 1..(i - 1) : rows[j].current_streak < largest
      IN /\ streak.longest_streak = largest
         /\ streak.longest_streak_end = history[reached]
         /\ streak.longest_streak_start =
               streak.longest_streak_end - (streak.longest_streak - 1)

C12_Witness ==
    /\ history = <<1, 2, 3, 5, 6>>
    /\ streak.current_streak = 2
    /\ streak.longest_streak = 3
    /\ streak.longest_streak_start = 1
    /\ streak.longest_streak_end = 3

----------------------------------------------------------------------------
(* Claims about topic mastery *)

Attempted == mastery.total_questions_attempted
Answered == mastery.total_correct_answers

\* accuracy * (0.5 + 0.5 * min(1, attempted / 50)) >= bound, for attempted > 0
ScoreAtLeast(correct, attempted, bound) ==
    IF attempted >= 50
    THEN 100 * correct >= bound * attempted
    ELSE correct * (50 + attempted) >= bound * attempted

SpecifiedLevel(correct, attempted) ==
    IF ScoreAtLeast(correct, attempted, 90) THEN 5
    ELSE IF ScoreAtLeast(correct, attempted, 75) THEN 4
    ELSE IF ScoreAtLeast(correct, attempted, 60) THEN 3
    ELSE IF ScoreAtLeast(correct, attempted, 40) THEN 2
    ELSE 1

Abs(x) == IF x < 0 THEN -x ELSE x

\* C13: after an update_mastery call mastery_level is the threshold tier of
\* accuracy * (0.5 + 0.5 * min(1, attempted / 50)) over the cumulative
\* counters, the stored accuracy and score are those values to two places,
\* and needs_revision is true exactly when mastery_level <= 2.
C13_DerivedFields ==
    mastery_call.outcome = "ok" =>
      /\ mastery.needs_revision = (mastery.mastery_level <= 2)
      /\ Attempted > 0 =>
            /\ mastery.mastery_level = SpecifiedLevel(Answered, Attempted)
            /\ Abs(mastery.accuracy_percentage * Attempted - 10000 * Answered)
                  <= Attempted
            /\ Abs(mastery.mastery_score * Attempted * 200
                    - 10000 * Answered * (100 + VolumePercent(Attempted)))
                  <= Attempted * 200

C13_Witness ==
    /\ mastery_call.outcome = "ok"
    /\ mastery_call.before = NoMastery
    /\ mastery_call.correct = 8 /\ mastery_call.total = 10
    /\ mastery.accuracy_percentage = 8000
    /\ mastery.mastery_score = 4800
    /\ mastery.mastery_level = 2
    /\ mastery.needs_revision

\* the row of another topic that reached the given counters in one attempt
RecordWith(correct, attempted) == update_mastery(NoMastery, correct, attempted, 0).row

\* C14: of two records with the same total_questions_attempted, the one
\* with more correct answers (both at most the total) has a mastery_level
\* at least as high.
C14_MasteryMonotone ==
    (mastery.exists /\ Attempted > 0 /\ Answered >= 0 /\ Answered <= Attempted) =>
      \A fewer \in 0..Answered :
         RecordWith(fewer, Attempted).mastery_level <= mastery.mastery_level

C14_Witness ==
    /\ Attempted = 10 /\ Answered = 10
    /\ mastery.mastery_level = 3
    /\ RecordWith(8, 10).mastery_level = 2

ZeroCall ==
    /\ mastery_call.outcome # "none"
    /\ mastery_call.total = 0
    /\ mastery_call.correct = 0

\* C15: update_mastery with total = 0 and correct = 0 completes without
\* error on any record and leaves accuracy_percentage at its previous value.
C15_ZeroTotalCompletes ==
    ZeroCall =>
      /\ mastery_call.outcome = "ok"
      /\ mastery.accuracy_percentage = mastery_call.before.accuracy_percentage

InvalidCounts ==
    /\ mastery_call.outcome # "none"
    /\ \/ mastery_call.correct < 0
       \/ mastery_call.total < 0
       \/ mastery_call.correct > mastery_call.total

\* C16: a call that violates total >= correct >= 0 is rejected and leaves
\* the record unchanged, so total_correct_answers never exceeds
\* total_questions_attempted in a stored row.
C16_InvalidCountsRejected ==
    /\ InvalidCounts =>
          mastery = [mastery_call.before EXCEPT !.exists = mastery.exists]
    /\ Answered <= Attempted

----------------------------------------------------------------------------
(* Badges *)

Requirements(b) == Catalog[b].requirements

BadgeCredits(b) ==
    {i \in DOMAIN ledger : /\ ledger[i].transaction_type = "badge_earned"
                           /\ ledger[i].reference_id = b}

NoDuplicates(rows) ==
    \A i \in DOMAIN rows : \A j \in DOMAIN rows : rows[i] = rows[j] => i = j

\* C17: across any sequence of check_and_award_badges calls there is at most one
\* StudentBadge row per badge, a call never returns as newly awarded a badge the
\* student already had (and never runs into the row that exists), and a badge's
\* xp_reward is credited to the ledger at most once.
C17_BadgeAtMostOnce ==
    /\ NoDuplicates(student_badges)
    /\ NoDuplicates(badge_call.awarded)
    /\ RowIds(badge_call.awarded) \cap RowIds(badge_call.before) = {}
    /\ badge_call.outcome \in {"none", "ok"}
    /\ \A b \in BadgeIds : Cardinality(BadgeCredits(b)) <= 1

\* a second call made with the flag of a badge earned in the first: the badge
\* is not awarded again, another one is
C17_Witness ==
    /\ badge_call.calls = 2
    /\ \E b \in RowIds(badge_call.before) :
          /\ DOMAIN Requirements(b) \subseteq badge_call.context
          /\ DOMAIN Requirements(b) # {}
          /\ Cardinality(BadgeCredits(b)) = 1
    /\ badge_call.awarded # <<>>

RecognizedKeys == {KeyOrder[i] : i \in DOMAIN KeyOrder}

Unrecognized == {b \in BadgeIds : DOMAIN Requirements(b) \cap RecognizedKeys = {}}

\* C18: a badge whose requirements hold no recognized key (an unknown key, or
\* no key at all) is never awarded: it gets no StudentBadge row and no XP
\* credit, the call raises nothing, and the badges around it in the catalog are
\* still evaluated (the speed_quiz and early_study badges are owned after any
\* call whose context sets their flag).
C18_UnrecognizedNeverQualifies ==
    /\ \A b \in Unrecognized : b \notin RowIds(student_badges) /\ BadgeCredits(b) = {}
    /\ badge_call.outcome \in {"none", "ok"}
    /\ \A b \in BadgeIds :
          /\ badge_call.calls > 0
          /\ Catalog[b].is_active
          /\ \E k \in {"speed_quiz", "early_study"} :
                DOMAIN Requirements(b) = {k} /\ k \in badge_call.context
          => b \in RowIds(student_badges)

\* one call that awards badges on both sides of the unrecognized ones
C18_Witness ==
    /\ Cardinality(Unrecognized) = 2
    /\ \E i \in DOMAIN badge_call.awarded, j \in DOMAIN badge_call.awarded :
          \A b \in Unrecognized : badge_call.awarded[i] < b /\ b < badge_call.awarded[j]

MultiKey == {b \in BadgeIds : Cardinality(DOMAIN Requirements(b)) > 1}

\* C19: a badge whose requirements hold more than one key is never awarded.
C19_MultiKeyNeverQualifies == \A b \in MultiKey : b \notin RowIds(student_badges)

ContextKind(b) ==
    \E k \in ContextFlags : DOMAIN Requirements(b) = {k}

\* C20: a badge of a context-dependent kind is awarded only by a call whose
\* context sets the flag of that kind; a call with an empty context awards
\* none of them, whatever the stored history.
C20_ContextKindsNeedFlag ==
    \A i \in DOMAIN badge_call.awarded :
        LET b == badge_call.awarded[i]
        IN ContextKind(b) => DOMAIN Requirements(b) \subseteq badge_call.context

\* a student with perfect quizzes in the history: the empty context leaves the
\* perfect_quiz badge unearned, the next call with the flag awards it
C20_Witness ==
    /\ stored.perfect_quizzes >= 1
    /\ badge_call.calls = 2
    /\ badge_call.context = {"perfect_quiz"}
    /\ \E i \in DOMAIN badge_call.awarded :
          DOMAIN Requirements(badge_call.awarded[i]) = {"perfect_quiz"}
    /\ \A i \in DOMAIN badge_call.before : ~ContextKind(badge_call.before[i])
    /\ badge_call.before # <<>>

TopTenKind(b) == DOMAIN Requirements(b) = {"top_10"}

\* C21: a badge requiring top_10 is awarded only by a call whose context
\* carries the top_10 flag.
C21_TopTenNeedsFlag ==
    \A i \in DOMAIN badge_call.awarded :
        TopTenKind(badge_call.awarded[i]) => "top_10" \in badge_call.context

\* C21 as the code has it: a badge requiring top_10 is awarded by a call exactly
\* when the student has a stored leaderboard entry of rank 10 or better,
\* whether or not the context carries a top_10 flag; so after the first call
\* the student owns the badge iff such an entry is stored.
C21_TopTenFromStoredEntry ==
    /\ \A i \in DOMAIN badge_call.awarded :
          TopTenKind(badge_call.awarded[i]) => stored.top_10_entry
    /\ \A b \in BadgeIds :
          badge_call.calls > 0 /\ TopTenKind(b) /\ Catalog[b].is_active
          => (b \in RowIds(student_badges) <=> stored.top_10_entry)

\* both sides: awarded without the flag on a stored entry
C21_Witness ==
    /\ badge_call.calls = 1
    /\ "top_10" \notin badge_call.context
    /\ stored.top_10_entry
    /\ \E i \in DOMAIN badge_call.awarded : TopTenKind(badge_call.awarded[i])

----------------------------------------------------------------------------
(* Claims about the leaderboard *)

\* the rows of the window of the last run, now and before that run
RunEntries == {e \in entries : e.period_start = board_run.day}
RunEntriesBefore == {b \in board_run.before : b.period_start = board_run.day}

Outranks(e1, e2) ==
    \/ e1.xp_earned > e2.xp_earned
    \/ e1.xp_earned = e2.xp_earned /\ e1.accuracy > e2.accuracy

\* C22: a completed ranking run over N students gives the ranks 1..N, each
\* once, and a student with more XP, or the same XP and a higher accuracy, has
\* the smaller rank.
C22_RanksFollowSort ==
    board_run.outcome = "done" =>
        /\ {e.student : e \in RunEntries} = Students
        /\ {e.rank : e \in RunEntries} = 1..Cardinality(Students)
        /\ \A e1, e2 \in RunEntries :
              /\ e1.rank = e2.rank => e1 = e2
              /\ Outranks(e1, e2) => e1.rank < e2.rank

\* A(500, 80), B(500, 90), C(300, 100) gives B = 1, A = 2, C = 3
C22_Witness ==
    /\ board_run.outcome = "done"
    /\ \E a, b, c \in RunEntries :
          /\ a.student = 1 /\ a.xp_earned = 500 /\ a.accuracy = 8000 /\ a.rank = 2
          /\ b.student = 2 /\ b.xp_earned = 500 /\ b.accuracy = 9000 /\ b.rank = 1
          /\ c.student = 3 /\ c.xp_earned = 300 /\ c.accuracy = 10000 /\ c.rank = 3

SameMetrics(e, b) ==
    /\ e.student = b.student
    /\ e.xp_earned = b.xp_earned
    /\ e.questions_answered = b.questions_answered
    /\ e.accuracy = b.accuracy

\* C23: a ranking run over the metrics of the run before it, for the same
\* window, gives every student the rank it had.
C23_RankingDeterministic ==
    /\ board_run.outcome = "done"
    /\ \A e \in RunEntries : \E b \in RunEntriesBefore : SameMetrics(e, b)
    => \A e \in RunEntries : \A b \in RunEntriesBefore :
          e.student = b.student => e.rank = b.rank

PriorWindowRank(s) ==
    IF \E b \in board_run.before : b.student = s /\ b.period_start = board_run.day - 1
    THEN (CHOOSE b \in board_run.before :
             b.student = s /\ b.period_start = board_run.day - 1).rank
    ELSE NoRank

\* C24: in every entry written by a run, previous_rank is the student's rank
\* in the snapshot of the window before, and rank_change = previous_rank - rank;
\* without an entry there, previous_rank is unset and rank_change = 0.
C24_PreviousRankFromPriorWindow ==
    board_run.outcome = "done" =>
        \A e \in RunEntries :
            /\ e.previous_rank = PriorWindowRank(e.student)
            /\ e.rank_change = IF PriorWindowRank(e.student) # NoRank
                               THEN PriorWindowRank(e.student) - e.rank ELSE 0

\* C25: no stored entry belongs to a student without XP and without answered
\* questions in the window.
C25_NoZeroActivityEntries ==
    \A e \in entries : e.xp_earned > 0 \/ e.questions_answered > 0

\* the half of C25 about get_leaderboard's list
C25_ListedHaveActivity ==
    \A i \in DOMAIN board_read.leaderboard :
        \/ board_read.leaderboard[i].xp_earned > 0
        \/ board_read.leaderboard[i].questions_answered > 0

\* C26: the stored rows of one window never come from two runs, and after a
\* run that raised the stored rows are the rows from before that run.
C26_SnapshotReplacedWhole ==
    /\ \A e1, e2 \in entries : e1.period_start = e2.period_start => e1.run = e2.run
    /\ board_run.outcome = "raised" => entries = board_run.before

\* C29: if the requesting student is in the list get_leaderboard returned,
\* get_student_rank returned the rank the list gives the student.
C29_ReadsAgree ==
    \A i \in DOMAIN board_read.leaderboard :
        board_read.leaderboard[i].student = board_read.student
        => board_read.user_rank = board_read.leaderboard[i].rank

----------------------------------------------------------------------------
(* Claims about quiz submission and the daily activity *)

\* C27: one quiz submit in which M answers belong to the topic raises the
\* record's total_questions_attempted by exactly M and its
\* total_correct_answers by exactly the number of correct ones.
C27_AbsorbedOnce ==
    submit_call.op = "quiz_submit" /\ submit_call.outcome = "ok" =>
        /\ mastery.total_questions_attempted
           = submit_call.before.total_questions_attempted + submit_call.attempted
        /\ mastery.total_correct_answers
           = submit_call.before.total_correct_answers + submit_call.correct

\* C28: today's DailyActivity.xp_earned equals the sum of xp_amount of the
\* ledger rows written today.
C28_DailyMatchesLedger == daily_xp = LedgerSum

----------------------------------------------------------------------------
(* Claims about the study timer *)

GoalRows == {i \in DOMAIN ledger : ledger[i].transaction_type = "daily_goal"}

\* C30: for one student and date at most one XP transaction of type
\* daily_goal is written, whatever study-timer operations run (start,
\* heartbeats, pause, goal changes) and however two heartbeats interleave
C30_GoalRewardOnce == Cardinality(GoalRows) <= 1

====
